---- MODULE Spec2Model ----
(***************************************************************************)
(* A model of id3v2lib's tag module (src/modules/tag.c): the tag aggregate, *)
(* its mutation API, tag parsing and serialization over byte streams, and   *)
(* the file rewrite ID3v2_Tag_write.                                        *)
(*                                                                          *)
(* Bytes are the integers 0..255; a CharStream, a file and a frame body are *)
(* sequences of bytes.  The collaborators of tag.c that live in other files *)
(* of the library (CharStream, TagHeader, Frame, FrameList, the frame       *)
(* constructors) are modelled from the library's specification.             *)
(***************************************************************************)
EXTENDS Integers, Sequences, FiniteSets, TLC

(***************************************************************************)
(* Bounds of the model.                                                     *)
(***************************************************************************)
\* longest text / comment / picture payload a caller passes
MaxTextLen == 2
\* number of mutation calls made on one tag
MaxOps == 3
\* number of ID3v2_Tag_write calls on the destination file
MaxWrites == 2
\* number of audio payload bytes in the destination file
MaxPayload == 3
\* number of mutation calls that build a tag handed to ID3v2_Tag_write
MaxWriteOps == 2
\* number of frames (whole or damaged) in a tag region handed to Tag_parse
MaxChunks == 3

(***************************************************************************)
(* Constants of the binary layout.                                          *)
(***************************************************************************)
ID3v2_TAG_HEADER_LENGTH == 10
ID3v2_FRAME_HEADER_LENGTH == 10
ID3v2_PIC_TYPE_FRONT_COVER == 3
\* the default padding budget of a rewrite
ID3v2_TAG_DEFAULT_PADDING_LENGTH == 2048

ID3v2_TAG_IDENTIFIER == <<73, 68, 51>>                   \* "ID3"
ID3v2_TITLE_FRAME_ID == <<84, 73, 84, 50>>               \* "TIT2"
ID3v2_ARTIST_FRAME_ID == <<84, 80, 69, 49>>              \* "TPE1"
ID3v2_COMMENT_FRAME_ID == <<67, 79, 77, 77>>             \* "COMM"
ID3v2_ALBUM_COVER_FRAME_ID == <<65, 80, 73, 67>>         \* "APIC"

NULL == [null |-> TRUE]

(***************************************************************************)
(* Sequence helpers.                                                        *)
(***************************************************************************)
Min(a, b) == IF a < b THEN a ELSE b

Max(a, b) == IF a < b THEN b ELSE a

\* s[from+1 .. from+n], cut at the end of s (from is a 0-based offset)
Slice(s, from, n) ==
    LET lo == Min(from, Len(s))
        hi == Min(from + Max(n, 0), Len(s))
    IN  [i \in 1..(hi - lo) |-> s[lo + i]]

\* s from the 0-based offset `from` to its end
Drop(s, from) == Slice(s, from, Len(s))

Zeros(n) == [i \in 1..n |-> 0]

RECURSIVE Flatten(_)
Flatten(ss) == IF ss = <<>> THEN <<>> ELSE Head(ss) \o Flatten(Tail(ss))

RECURSIVE SumSeq(_)
SumSeq(ns) == IF ns = <<>> THEN 0 ELSE Head(ns) + SumSeq(Tail(ns))

\* 0-based offset of the first byte b in s at or after offset `from`; Len(s) if none
RECURSIVE IndexOf(_, _, _)
IndexOf(s, b, from) ==
    IF from >= Len(s) THEN Len(s)
    ELSE IF s[from + 1] = b THEN from
    ELSE IndexOf(s, b, from + 1)

(***************************************************************************)
(* utils: big-endian and sync-safe integers.                                *)
(***************************************************************************)
\* itob: the 4 bytes of a 32-bit integer, most significant first
itob(n) ==
    << (n \div 16777216) % 256, (n \div 65536) % 256, (n \div 256) % 256, n % 256 >>

\* btoi: the 32-bit signed integer of 4 bytes, most significant first
btoi(b) ==
    (((IF b[1] >= 128 THEN b[1] - 256 ELSE b[1]) * 256 + b[2]) * 256 + b[3]) * 256
        + b[4]

\* syncint_encode: 28 bits spread over the low 7 bits of 4 bytes
syncint_encode(n) ==
    ((((n \div 2097152) % 128) * 256 + ((n \div 16384) % 128)) * 256
        + ((n \div 128) % 128)) * 256 + (n % 128)

\* syncint_decode: the low 7 bits of each of the 4 bytes, top bits ignored
syncint_decode(n) ==
    ((((n \div 16777216) % 128) * 128 + ((n \div 65536) % 128)) * 128
        + ((n \div 256) % 128)) * 128 + (n % 128)

\* clamp_int: value limited to lo..hi
clamp_int(value, lo, hi) == IF value < lo THEN lo ELSE IF value > hi THEN hi ELSE value

(***************************************************************************)
(* frame_header / frames: constructors.  header.size is the byte length of  *)
(* the body that follows the 10-byte frame header.                          *)
(***************************************************************************)
FrameHeader_new(id, flags, size) == [id |-> id, flags |-> flags, size |-> size]

TextFrame_new(id, flags, text) ==
    [header |-> FrameHeader_new(id, flags, 1 + Len(text)),
     kind |-> "text", encoding |-> 0, text |-> text]

CommentFrame_new(flags, language, short_description, comment) ==
    [header |-> FrameHeader_new(ID3v2_COMMENT_FRAME_ID, flags,
                    3 + 1 + Len(short_description) + 1 + Len(comment)),
     kind |-> "comment", language |-> language, encoding |-> 0,
     short_description |-> short_description, comment |-> comment]

ApicFrame_new(flags, description, picture_type, mime_type, picture_size, data) ==
    [header |-> FrameHeader_new(ID3v2_ALBUM_COVER_FRAME_ID, flags,
                    1 + Len(mime_type) + 1 + 1 + Len(description) + 1 + picture_size),
     kind |-> "apic", encoding |-> 0, mime_type |-> mime_type,
     picture_type |-> picture_type, description |-> description,
     picture_size |-> picture_size, data |-> Slice(data, 0, picture_size)]

GenericFrame_new(id, flags, size, raw) ==
    [header |-> FrameHeader_new(id, flags, size), kind |-> "generic", raw |-> raw]

(***************************************************************************)
(* frame: the frame codec.                                                  *)
(***************************************************************************)
\* the encoded body of a frame, by kind
Frame_body(frame) ==
    CASE frame.kind = "text" -> <<frame.encoding>> \o frame.text
      [] frame.kind = "comment" ->
            frame.language \o <<frame.encoding>> \o frame.short_description
                \o <<0>> \o frame.comment
      [] frame.kind = "apic" ->
            <<frame.encoding>> \o frame.mime_type \o <<0>> \o <<frame.picture_type>>
                \o frame.description \o <<0>> \o frame.data
      [] OTHER -> frame.raw

\* Frame_to_char_stream: id, size, flags, body
Frame_to_char_stream(frame) ==
    frame.header.id \o itob(syncint_encode(frame.header.size))
        \o frame.header.flags \o Frame_body(frame)

\* the body of a frame read back, dispatched by id
Frame_dispatch(id, flags, size, body) ==
    IF id[1] = 84 /\ size >= 1 THEN
        [header |-> FrameHeader_new(id, flags, size), kind |-> "text",
         encoding |-> body[1], text |-> Drop(body, 1)]
    ELSE IF id = ID3v2_COMMENT_FRAME_ID /\ size >= 5 THEN
        LET z == IndexOf(body, 0, 4)
        IN  [header |-> FrameHeader_new(id, flags, size), kind |-> "comment",
             language |-> Slice(body, 0, 3), encoding |-> body[4],
             short_description |-> Slice(body, 4, z - 4),
             comment |-> Drop(body, z + 1)]
    ELSE IF id = ID3v2_ALBUM_COVER_FRAME_ID /\ size >= 4 THEN
        LET m == IndexOf(body, 0, 1)
            d == IndexOf(body, 0, m + 2)
        IN  [header |-> FrameHeader_new(id, flags, size), kind |-> "apic",
             encoding |-> body[1], mime_type |-> Slice(body, 1, m - 1),
             picture_type |-> IF m + 2 <= Len(body) THEN body[m + 2] ELSE 0,
             description |-> Slice(body, m + 2, d - (m + 2)),
             picture_size |-> Len(Drop(body, d + 1)),
             data |-> Drop(body, d + 1)]
    ELSE GenericFrame_new(id, flags, size, body)

\* Frame_parse at `cursor`: no frame when the id is padding or the declared
\* size does not fit the remaining stream bytes; the cursor moves past a
\* frame that was read and stays where it was otherwise
Frame_parse(stream, cursor, major_version) ==
    LET id == Slice(stream, cursor, 4)
        raw == btoi(Slice(stream, cursor + 4, 4))
        size == IF major_version = 4 THEN syncint_decode(raw) ELSE raw
        flags == Slice(stream, cursor + 8, 2)
    IN  IF cursor + ID3v2_FRAME_HEADER_LENGTH > Len(stream)
            THEN [ok |-> FALSE, cursor |-> cursor]
        ELSE IF id[1] = 0 \/ cursor + ID3v2_FRAME_HEADER_LENGTH + size > Len(stream)
            THEN [ok |-> FALSE, cursor |-> cursor]
        ELSE [ok |-> TRUE,
              frame |-> Frame_dispatch(id, flags, size,
                            Slice(stream, cursor + ID3v2_FRAME_HEADER_LENGTH, size)),
              cursor |-> cursor + ID3v2_FRAME_HEADER_LENGTH + size]

(***************************************************************************)
(* tag_header: the tag header codec.                                        *)
(***************************************************************************)
TagHeader_new(major_version, minor_version, flags, tag_size, extended_header_size) ==
    [identifier |-> ID3v2_TAG_IDENTIFIER, major_version |-> major_version,
     minor_version |-> minor_version, flags |-> flags, tag_size |-> tag_size,
     extended_header_size |-> extended_header_size]

TagHeader_new_empty == TagHeader_new(4, 0, 0, 0, 0)

\* TagHeader_parse: NULL when the magic does not match
TagHeader_parse(stream) ==
    IF Len(stream) < ID3v2_TAG_HEADER_LENGTH \/ Slice(stream, 0, 3) # ID3v2_TAG_IDENTIFIER
    THEN NULL
    ELSE LET flags == stream[6]
             ext == IF (flags \div 64) % 2 = 1 /\ Len(stream) >= ID3v2_TAG_HEADER_LENGTH + 4
                    THEN syncint_decode(btoi(Slice(stream, ID3v2_TAG_HEADER_LENGTH, 4)))
                    ELSE 0
         IN  TagHeader_new(stream[4], stream[5], flags,
                           syncint_decode(btoi(Slice(stream, 6, 4))), ext)

\* the 10 header bytes Tag_to_char_stream writes (tag.c lines 75-83)
TagHeader_bytes(header) ==
    header.identifier \o <<header.major_version>> \o <<header.minor_version>>
        \o <<header.flags>> \o itob(syncint_encode(header.tag_size))

(***************************************************************************)
(* frame_list: an ordered sequence of frames.                               *)
(***************************************************************************)
FrameList_new == <<>>

FrameList_add_frame(frames, frame) == Append(frames, frame)

\* index of the first frame with this id, 0 if there is none
FrameList_index_by_id(frames, id) ==
    IF \E i \in 1..Len(frames) : frames[i].header.id = id
    THEN CHOOSE i \in 1..Len(frames) :
            /\ frames[i].header.id = id
            /\ \A j \in 1..(i - 1) : frames[j].header.id # id
    ELSE 0

FrameList_get_frame_by_id(frames, id) ==
    IF FrameList_index_by_id(frames, id) = 0 THEN NULL
    ELSE frames[FrameList_index_by_id(frames, id)]

RECURSIVE FrameList_get_frames_by_id(_, _)
FrameList_get_frames_by_id(frames, id) ==
    IF frames = <<>> THEN <<>>
    ELSE (IF Head(frames).header.id = id THEN <<Head(frames)>> ELSE <<>>)
            \o FrameList_get_frames_by_id(Tail(frames), id)

\* FrameList_replace_frame: new_frame in the list position old_frame holds
FrameList_replace_frame(frames, old_frame, new_frame) ==
    LET i == CHOOSE k \in 1..Len(frames) :
                /\ frames[k] = old_frame
                /\ \A j \in 1..(k - 1) : frames[j] # old_frame
    IN  [frames EXCEPT ![i] = new_frame]

(***************************************************************************)
(* char_stream: a buffer of `size` bytes and a cursor.  CharStream_write    *)
(* does not check bounds: the bytes that fall past `size` land outside the  *)
(* buffer, and the cursor still advances.                                   *)
(***************************************************************************)
CharStream_new(size) == [stream |-> Zeros(size), size |-> Max(size, 0), cursor |-> 0]

CharStream_write(cs, data) ==
    [cs EXCEPT
        !.stream = [i \in 1..cs.size |->
                        IF i > cs.cursor /\ i <= cs.cursor + Len(data)
                        THEN data[i - cs.cursor] ELSE cs.stream[i]],
        !.cursor = cs.cursor + Len(data)]

\* CharStream_from_buffer: a stream over the given bytes, cursor at 0
CharStream_from_buffer(bytes) == [stream |-> bytes, size |-> Len(bytes), cursor |-> 0]

\* CharStream_seek with SEEK_SET: the cursor becomes the offset
CharStream_seek_set(cursor, offset) == offset

(***************************************************************************)
(* tag.c: construction, parsing, serialization.                             *)
(***************************************************************************)
\* ID3v2_Tag_new: the padding_size argument is not used
ID3v2_Tag_new(header, padding_size) ==
    [header |-> IF header = NULL THEN TagHeader_new_empty ELSE header,
     frames |-> FrameList_new,
     padding_size |-> 0]

ID3v2_Tag_new_empty == ID3v2_Tag_new(NULL, 0)

\* mutant: a frame that cannot be read is stepped over (its 10 header bytes)
\* and the loop goes on
RECURSIVE Tag_parse_frames_skip(_, _, _, _, _)
Tag_parse_frames_skip(stream, cursor, tag_size, major_version, frames) ==
    IF cursor < tag_size
    THEN LET r == Frame_parse(stream, cursor, major_version)
         IN  IF ~r.ok
             THEN Tag_parse_frames_skip(stream, cursor + ID3v2_FRAME_HEADER_LENGTH,
                                        tag_size, major_version, frames)
             ELSE Tag_parse_frames_skip(stream, r.cursor, tag_size, major_version,
                                        FrameList_add_frame(frames, r.frame))
    ELSE [frames |-> frames, cursor |-> cursor]

\* the frame loop of Tag_parse (lines 57-63): the frames read and the cursor
\* where the loop stopped
RECURSIVE Tag_parse_frames(_, _, _, _, _)
Tag_parse_frames(stream, cursor, tag_size, major_version, frames) ==
    IF cursor < tag_size
    THEN LET r == Frame_parse(stream, cursor, major_version)
         IN  IF ~r.ok THEN [frames |-> frames, cursor |-> r.cursor]
             ELSE Tag_parse_frames(stream, r.cursor, tag_size, major_version,
                                   FrameList_add_frame(frames, r.frame))
    ELSE [frames |-> frames, cursor |-> cursor]

\* the cursor at which Tag_parse starts reading frames (lines 51-55)
Tag_parse_start(header) ==
    IF header.extended_header_size > 0
    THEN CharStream_seek_set(ID3v2_TAG_HEADER_LENGTH, header.extended_header_size)
    ELSE ID3v2_TAG_HEADER_LENGTH

\* mutant: the padding is counted up to tag_size, not to the end of the stream
Tag_parse_padding_to_tag_size(stream) ==
    LET header == TagHeader_parse(stream)
    IN  IF header = NULL THEN NULL
        ELSE LET r == Tag_parse_frames(stream, Tag_parse_start(header),
                                       header.tag_size, header.major_version,
                                       FrameList_new)
             IN  [header |-> header, frames |-> r.frames,
                  padding_size |-> header.tag_size - r.cursor]

Tag_parse(stream) ==
    LET header == TagHeader_parse(stream)
    IN  IF header = NULL THEN NULL
        ELSE LET r == Tag_parse_frames(stream, Tag_parse_start(header),
                                       header.tag_size, header.major_version,
                                       FrameList_new)
             IN  [header |-> header, frames |-> r.frames,
                  padding_size |-> Len(stream) - r.cursor]

\* mutant: the stream has room for tag_size bytes only
Tag_stream_capacity_no_header(tag) == tag.header.tag_size

\* the stream Tag_to_char_stream allocates (line 72)
Tag_stream_capacity(tag) == tag.header.tag_size + ID3v2_TAG_HEADER_LENGTH

\* the frame loop of Tag_to_char_stream (lines 86-97)
RECURSIVE Tag_write_frames(_, _)
Tag_write_frames(cs, frames) ==
    IF frames = <<>> THEN cs
    ELSE Tag_write_frames(CharStream_write(cs, Frame_to_char_stream(Head(frames))),
                          Tail(frames))

\* Tag_to_char_stream when every frame yields a stream
Tag_to_char_stream(tag) ==
    Tag_write_frames(
        CharStream_write(CharStream_new(Tag_stream_capacity(tag)),
                         TagHeader_bytes(tag.header)),
        tag.frames)

(***************************************************************************)
(* tag.c: the mutation API, as functions of the tag.                        *)
(***************************************************************************)
ID3v2_Tag_get_frame(tag, frame_id) ==
    IF tag = NULL THEN NULL ELSE FrameList_get_frame_by_id(tag.frames, frame_id)

ID3v2_Tag_get_frames(tag, frame_id) ==
    IF tag = NULL THEN NULL ELSE FrameList_get_frames_by_id(tag.frames, frame_id)

ID3v2_Tag_get_comment_frame(tag) == ID3v2_Tag_get_frame(tag, ID3v2_COMMENT_FRAME_ID)

ID3v2_Tag_get_comment_frames(tag) == ID3v2_Tag_get_frames(tag, ID3v2_COMMENT_FRAME_ID)

ID3v2_Tag_get_album_cover_frame(tag) ==
    ID3v2_Tag_get_frame(tag, ID3v2_ALBUM_COVER_FRAME_ID)

ID3v2_Tag_get_apic_frames(tag) == ID3v2_Tag_get_frames(tag, ID3v2_ALBUM_COVER_FRAME_ID)

\* mutant: the replace branch adds the new frame's size without taking off the old
ID3v2_Tag_set_text_frame_no_delta(tag, input) ==
    LET new_frame == TextFrame_new(input.id, input.flags, input.text)
        existing_frame == FrameList_get_frame_by_id(tag.frames, input.id)
    IN  IF existing_frame = NULL
        THEN [tag EXCEPT
                !.frames = FrameList_add_frame(@, new_frame),
                !.header.tag_size = @ + new_frame.header.size]
        ELSE [tag EXCEPT
                !.frames = FrameList_replace_frame(@, existing_frame, new_frame),
                !.header.tag_size = @ + new_frame.header.size]

ID3v2_Tag_set_text_frame(tag, input) ==
    LET new_frame == TextFrame_new(input.id, input.flags, input.text)
        existing_frame == FrameList_get_frame_by_id(tag.frames, input.id)
    IN  IF existing_frame = NULL
        THEN [tag EXCEPT
                !.frames = FrameList_add_frame(@, new_frame),
                !.header.tag_size = @ + new_frame.header.size]
        ELSE [tag EXCEPT
                !.frames = FrameList_replace_frame(@, existing_frame, new_frame),
                !.header.tag_size =
                    @ + (new_frame.header.size - existing_frame.header.size)]

\* mutant: the existing frame is not looked up, the new frame is appended
ID3v2_Tag_set_comment_frame_append(tag, input) ==
    LET new_frame == CommentFrame_new(input.flags, input.language,
                                      input.short_description, input.comment)
    IN  [tag EXCEPT
            !.frames = FrameList_add_frame(@, new_frame),
            !.header.tag_size = @ + new_frame.header.size]

ID3v2_Tag_set_comment_frame(tag, input) ==
    LET new_frame == CommentFrame_new(input.flags, input.language,
                                      input.short_description, input.comment)
        existing_frame == ID3v2_Tag_get_comment_frame(tag)
    IN  IF existing_frame = NULL
        THEN [tag EXCEPT
                !.frames = FrameList_add_frame(@, new_frame),
                !.header.tag_size = @ + new_frame.header.size]
        ELSE [tag EXCEPT
                !.frames = FrameList_replace_frame(@, existing_frame, new_frame),
                !.header.tag_size =
                    @ + (new_frame.header.size - existing_frame.header.size)]

\* mutant: add replaces the first comment frame when there is one, as set does
ID3v2_Tag_add_comment_frame_as_set(tag, input) ==
    LET new_frame == CommentFrame_new(input.flags, input.language,
                                      input.short_description, input.comment)
        existing_frame == ID3v2_Tag_get_comment_frame(tag)
    IN  IF existing_frame = NULL
        THEN [tag EXCEPT
                !.frames = FrameList_add_frame(@, new_frame),
                !.header.tag_size = @ + new_frame.header.size]
        ELSE [tag EXCEPT
                !.frames = FrameList_replace_frame(@, existing_frame, new_frame),
                !.header.tag_size =
                    @ + (new_frame.header.size - existing_frame.header.size)]

ID3v2_Tag_add_comment_frame(tag, input) ==
    LET new_frame == CommentFrame_new(input.flags, input.language,
                                      input.short_description, input.comment)
    IN  [tag EXCEPT
            !.frames = FrameList_add_frame(@, new_frame),
            !.header.tag_size = @ + new_frame.header.size]

ID3v2_Tag_set_apic_frame(tag, input) ==
    LET new_frame == ApicFrame_new(input.flags, input.description, input.picture_type,
                                   input.mime_type, input.picture_size, input.data)
        existing_frame == ID3v2_Tag_get_album_cover_frame(tag)
    IN  IF existing_frame = NULL
        THEN [tag EXCEPT
                !.frames = FrameList_add_frame(@, new_frame),
                !.header.tag_size = @ + new_frame.header.size]
        ELSE [tag EXCEPT
                !.frames = FrameList_replace_frame(@, existing_frame, new_frame),
                !.header.tag_size =
                    @ + (new_frame.header.size - existing_frame.header.size)]

\* mutant: the frame is appended and tag_size is left as it was
ID3v2_Tag_add_apic_frame_no_size(tag, input) ==
    LET new_frame == ApicFrame_new(input.flags, input.description, input.picture_type,
                                   input.mime_type, input.picture_size, input.data)
    IN  [tag EXCEPT !.frames = FrameList_add_frame(@, new_frame)]

ID3v2_Tag_add_apic_frame(tag, input) ==
    LET new_frame == ApicFrame_new(input.flags, input.description, input.picture_type,
                                   input.mime_type, input.picture_size, input.data)
    IN  [tag EXCEPT
            !.frames = FrameList_add_frame(@, new_frame),
            !.header.tag_size = @ + new_frame.header.size]

\* ID3v2_Tag_set_album_cover (lines 472-490): set_apic_frame with the picture
\* type of a front cover and an empty description
ID3v2_Tag_set_album_cover(tag, mime_type, size, data) ==
    ID3v2_Tag_set_apic_frame(tag,
        [flags |-> <<0, 0>>, mime_type |-> mime_type, description |-> <<>>,
         picture_size |-> size, picture_type |-> ID3v2_PIC_TYPE_FRONT_COVER,
         data |-> data])

(***************************************************************************)
(* Inputs of the calls, and the destination files.                          *)
(***************************************************************************)
NONE == [none |-> TRUE]

NoFlags == <<0, 0>>

\* the text "a", "ab", "abc", ... of length n
Text(n) == [i \in 1..n |-> 96 + i]

\* set title to the shortest and to the longest text, set artist to "a"
TextInputs ==
    { [id |-> ID3v2_TITLE_FRAME_ID, flags |-> NoFlags, text |-> Text(n)] :
        n \in {1, MaxTextLen} }
    \cup { [id |-> ID3v2_ARTIST_FRAME_ID, flags |-> NoFlags, text |-> Text(1)] }

CommentInputs ==
    { [flags |-> NoFlags, language |-> <<101, 110, 103>>,
       short_description |-> d, comment |-> Text(1)] : d \in {<<>>, <<100>>} }

ApicInputs ==
    { [flags |-> NoFlags, description |-> <<>>, picture_type |-> p,
       mime_type |-> <<105, 109, 97, 103, 101, 47, 112, 110, 103>>,
       picture_size |-> 1, data |-> Text(1)] :
        p \in {ID3v2_PIC_TYPE_FRONT_COVER, ID3v2_PIC_TYPE_FRONT_COVER + 1} }

\* the picture a caller hands to ID3v2_Tag_set_album_cover
CoverInputs ==
    { [flags |-> NoFlags, description |-> <<>>,
       picture_type |-> ID3v2_PIC_TYPE_FRONT_COVER,
       mime_type |-> <<105, 109, 97, 103, 101, 47, 112, 110, 103>>,
       picture_size |-> 1, data |-> <<99>>] }

\* the audio bytes that follow the tag in the destination file
AudioPayload == [i \in 1..MaxPayload |-> 200 + i]

\* a well-formed tag region on disk: header, frames, padding
TagRegion(frames, padding) ==
    LET body == Flatten([i \in 1..Len(frames) |-> Frame_to_char_stream(frames[i])])
    IN  TagHeader_bytes(TagHeader_new(4, 0, 0, Len(body) + padding, 0))
            \o body \o Zeros(padding)

\* the destination files: no tag; a tag without padding; a tag with two
\* frames and padding; a tag whose declared extent is the whole file
DestFiles ==
    { AudioPayload,
      TagRegion(<<TextFrame_new(ID3v2_TITLE_FRAME_ID, NoFlags, Text(1))>>, 0)
          \o AudioPayload,
      TagRegion(<<TextFrame_new(ID3v2_ARTIST_FRAME_ID, NoFlags, Text(2)),
                  CommentFrame_new(NoFlags, <<101, 110, 103>>, <<>>, Text(1))>>, 12)
          \o AudioPayload,
      TagRegion(<<TextFrame_new(ID3v2_TITLE_FRAME_ID, NoFlags, Text(1))>>, 0) }

\* ID3v2_TagHeader_read: the header of the tag at the start of a file, if any
ID3v2_TagHeader_read(file) == TagHeader_parse(Slice(file, 0, ID3v2_TAG_HEADER_LENGTH))

\* ID3v2_read_tag: the tag region of a file (header + tag_size bytes), parsed
ID3v2_read_tag(file) ==
    LET header == ID3v2_TagHeader_read(file)
    IN  IF header = NULL THEN NULL
        ELSE LET n == header.tag_size + ID3v2_TAG_HEADER_LENGTH
             IN  Tag_parse(Slice(file, 0, n) \o Zeros(n - Len(file)))

(***************************************************************************)
(* State.                                                                   *)
(***************************************************************************)
VARIABLES
    tag,        \* the ID3v2_Tag the caller holds (NULL: none)
    origin,     \* "empty": from ID3v2_Tag_new_empty; "parsed": from Tag_parse
    hist,       \* the tag at its creation and after each mutation call
    log,        \* the mutation calls made on the tag, in order
    out,        \* the last Tag_to_char_stream call and its stream (NONE: none)
    reparsed,   \* what Tag_parse made of `out` (NONE: not parsed)
    proc,       \* "running", "exited" (exit(1)) or "crashed"
    dest,       \* the bytes of the destination file
    w,          \* the frame of the ID3v2_Tag_write call in progress
    nWrites     \* number of ID3v2_Tag_write calls made so far

vars == <<tag, origin, hist, log, out, reparsed, proc, dest, w, nWrites>>

WriteIdle ==
    [pc |-> "idle", original_size |-> 0, extra_padding_length |-> 0,
     tag_cs |-> NONE, temp |-> <<>>,
     temp_fp |-> "none", dest_fp |-> "none", fault |-> "none",
     null_use |-> FALSE, dest0 |-> <<>>, opened |-> {}, open_handles |-> {},
     clean |-> TRUE, payload0 |-> <<>>]

Init ==
    /\ tag = ID3v2_Tag_new_empty
    /\ origin = "empty"
    /\ hist = <<ID3v2_Tag_new_empty>>
    /\ log = <<>>
    /\ out = NONE
    /\ reparsed = NONE
    /\ proc = "running"
    /\ dest = AudioPayload
    /\ w = WriteIdle
    /\ nWrites = 0

(***************************************************************************)
(* The calls of the tag API.                                                *)
(***************************************************************************)
CanMutate ==
    /\ proc = "running"
    /\ tag # NULL
    /\ out = NONE
    /\ Len(log) < MaxOps

Mutated(op, input, newTag) ==
    /\ tag' = newTag
    /\ hist' = Append(hist, newTag)
    /\ log' = Append(log, [op |-> op, input |-> input])
    /\ UNCHANGED <<origin, out, reparsed, proc, dest, w, nWrites>>

Call_set_text_frame ==
    /\ CanMutate
    /\ \E input \in TextInputs :
          Mutated("set_text_frame", input, ID3v2_Tag_set_text_frame(tag, input))

Call_set_comment_frame ==
    /\ CanMutate
    /\ \E input \in CommentInputs :
          Mutated("set_comment_frame", input, ID3v2_Tag_set_comment_frame(tag, input))

Call_add_comment_frame ==
    /\ CanMutate
    /\ \E input \in CommentInputs :
          Mutated("add_comment_frame", input, ID3v2_Tag_add_comment_frame(tag, input))

Call_set_apic_frame ==
    /\ CanMutate
    /\ \E input \in ApicInputs :
          Mutated("set_apic_frame", input, ID3v2_Tag_set_apic_frame(tag, input))

Call_add_apic_frame ==
    /\ CanMutate
    /\ \E input \in ApicInputs :
          Mutated("add_apic_frame", input, ID3v2_Tag_add_apic_frame(tag, input))

Call_set_album_cover ==
    /\ CanMutate
    /\ \E input \in CoverInputs :
          Mutated("set_album_cover", input,
                  ID3v2_Tag_set_album_cover(tag, input.mime_type, input.picture_size,
                                            input.data))

\* ID3v2_read_tag: the caller replaces its fresh tag by the one parsed from a file
Call_read_tag ==
    /\ proc = "running"
    /\ origin = "empty"
    /\ log = <<>>
    /\ out = NONE
    /\ \E file \in DestFiles :
          /\ tag' = ID3v2_read_tag(file)
          /\ hist' = <<ID3v2_read_tag(file)>>
    /\ origin' = "parsed"
    /\ UNCHANGED <<log, out, reparsed, proc, dest, w, nWrites>>

\* Tag_to_char_stream (lines 70-100).  `fails`: Frame_to_char_stream yields no
\* stream for one of the frames, and the code calls exit(1).  Writing past the
\* stream's capacity is undefined behaviour: the process crashes, or goes on
\* with the bytes that fit.
Call_to_char_stream ==
    /\ proc = "running"
    /\ tag # NULL
    /\ out = NONE
    /\ \E fails \in BOOLEAN :
          IF fails
          THEN /\ tag.frames # <<>>
               /\ proc' = "exited"
               /\ out' = [src |-> tag, failed |-> TRUE, cs |-> NONE]
          ELSE LET cs == Tag_to_char_stream(tag)
               IN  /\ out' = [src |-> tag, failed |-> FALSE, cs |-> cs]
                   /\ \/ proc' = proc
                      \/ cs.cursor > cs.size /\ proc' = "crashed"
    /\ UNCHANGED <<tag, origin, hist, log, reparsed, dest, w, nWrites>>

\* Tag_parse applied to the stream Tag_to_char_stream returned
Call_parse_stream ==
    /\ proc = "running"
    /\ out # NONE
    /\ reparsed = NONE
    /\ reparsed' = Tag_parse(out.cs.stream)
    /\ UNCHANGED <<tag, origin, hist, log, out, proc, dest, w, nWrites>>

\* CharStream_free of the stream
Call_free_stream ==
    /\ proc = "running"
    /\ out # NONE
    /\ out' = NONE
    /\ reparsed' = NONE
    /\ UNCHANGED <<tag, origin, hist, log, proc, dest, w, nWrites>>

Next ==
    \/ Call_set_text_frame
    \/ Call_set_comment_frame
    \/ Call_add_comment_frame
    \/ Call_set_apic_frame
    \/ Call_add_apic_frame
    \/ Call_set_album_cover
    \/ Call_read_tag
    \/ Call_to_char_stream
    \/ Call_parse_stream
    \/ Call_free_stream

Spec == Init /\ [][Next]_vars

(***************************************************************************)
(* Tag_parse (lines 44-68) on tag regions that may be damaged.  A region is *)
(* a tag header, an optional extended header and up to MaxChunks chunks:    *)
(* whole frames, a frame header whose declared size runs past the end of    *)
(* the region, or padding.  The header declares the length of what follows  *)
(* it, so the stream's size is 10 + tag_size.                               *)
(***************************************************************************)
ChunkKinds == {"text", "comment", "corrupt", "padding"}

\* the frame a whole chunk holds
ChunkFrame(kind) ==
    IF kind = "text" THEN TextFrame_new(ID3v2_TITLE_FRAME_ID, NoFlags, Text(1))
    ELSE CommentFrame_new(NoFlags, <<101, 110, 103>>, <<>>, Text(1))

\* the bytes of a chunk
ChunkBytes(kind) ==
    CASE kind \in {"text", "comment"} -> Frame_to_char_stream(ChunkFrame(kind))
      [] kind = "corrupt" -> ID3v2_TITLE_FRAME_ID \o <<0, 0, 0, 127>> \o NoFlags
      [] OTHER -> Zeros(ID3v2_FRAME_HEADER_LENGTH)

\* the extended header of e bytes: its sync-safe size, then filler
ExtendedHeaderBytes(e) ==
    IF e = 0 THEN <<>> ELSE itob(syncint_encode(e)) \o [i \in 1..(e - 4) |-> 1]

\* a region: magic good or bad, an extended header of ext bytes (0: none),
\* the chunks in order
ParseInputs ==
    [magic : BOOLEAN, ext : {0, 6},
     chunks : UNION { [1..n -> ChunkKinds] : n \in 0..MaxChunks }]

RegionBytes(input) ==
    LET body == ExtendedHeaderBytes(input.ext)
                    \o Flatten([i \in 1..Len(input.chunks) |->
                                    ChunkBytes(input.chunks[i])])
        header == TagHeader_new(4, 0, IF input.ext > 0 THEN 64 ELSE 0, Len(body), 0)
    IN  (IF input.magic THEN TagHeader_bytes(header)
         ELSE <<73, 68, 52>> \o Drop(TagHeader_bytes(header), 3))
            \o body

\* a caller wraps a tag region in a stream
Call_read_buffer ==
    /\ proc = "running"
    /\ out = NONE
    /\ \E input \in ParseInputs :
          out' = [src |-> input, failed |-> FALSE,
                  cs |-> CharStream_from_buffer(RegionBytes(input))]
    /\ UNCHANGED <<tag, origin, hist, log, reparsed, proc, dest, w, nWrites>>

NextParse ==
    \/ Call_read_buffer
    \/ Call_parse_stream
    \/ Call_free_stream

SpecParse == Init /\ [][NextParse]_vars

(***************************************************************************)
(* ID3v2_Tag_write (lines 102-150), one action per statement group.  The    *)
(* code checks no result of tmpfile, fopen, fwrite, getc or putc:           *)
(*   - a short write to the scratch file goes unnoticed;                    *)
(*   - a NULL handle is passed on to the next stdio call, which is          *)
(*     undefined behaviour: the process crashes there, or the C library     *)
(*     rejects the call (it returns an error, nothing is read or written)   *)
(*     and the function goes on, as it does for every later call on that    *)
(*     handle.                                                              *)
(* At most one I/O call fails per ID3v2_Tag_write call (w.fault).           *)
(* The handles are "temp" (tmpfile), "dest_r" (fopen "r+b") and "dest_w"    *)
(* (fopen "w+b"): w.opened holds those the call has opened, w.open_handles  *)
(* those of them not yet closed.  Two fields record the history of the      *)
(* destination: w.payload0 is the audio payload it held before the first    *)
(* call, w.clean says that no I/O call of an earlier call failed.           *)
(***************************************************************************)
\* the k-th call of the script that builds the tags handed to ID3v2_Tag_write
ScriptCall(t, k) ==
    CASE k = 1 -> ID3v2_Tag_set_text_frame(t,
                      [id |-> ID3v2_TITLE_FRAME_ID, flags |-> NoFlags,
                       text |-> Text(MaxTextLen)])
      [] k = 2 -> ID3v2_Tag_add_comment_frame(t,
                      [flags |-> NoFlags, language |-> <<101, 110, 103>>,
                       short_description |-> <<>>, comment |-> Text(1)])
      [] k = 3 -> ID3v2_Tag_set_text_frame(t,
                      [id |-> ID3v2_ARTIST_FRAME_ID, flags |-> NoFlags,
                       text |-> Text(1)])
      [] OTHER -> ID3v2_Tag_add_comment_frame(t,
                      [flags |-> NoFlags, language |-> <<101, 110, 103>>,
                       short_description |-> <<100>>, comment |-> Text(1)])

RECURSIVE Built(_, _)
Built(base, k) == IF k = 0 THEN base ELSE ScriptCall(Built(base, k - 1), k)

\* mutant: the old extent leaves out the 10 header bytes
Write_original_size_no_header(file) ==
    LET existing_tag_header == ID3v2_TagHeader_read(file)
    IN  IF existing_tag_header # NULL THEN existing_tag_header.tag_size ELSE 0

\* original_size (lines 106-108)
Write_original_size(file) ==
    LET existing_tag_header == ID3v2_TagHeader_read(file)
    IN  IF existing_tag_header # NULL
        THEN existing_tag_header.tag_size + ID3v2_TAG_HEADER_LENGTH
        ELSE 0

\* the tags a caller hands to ID3v2_Tag_write: an empty tag or the tag read
\* from the file (when the file holds the whole tag region its header
\* declares), after 0..MaxWriteOps mutation calls
WriteTags(file) ==
    { Built(ID3v2_Tag_new_empty, k) : k \in 0..MaxWriteOps }
    \cup (IF ID3v2_TagHeader_read(file) = NULL
             \/ Write_original_size(file) > Len(file)
          THEN {}
          ELSE { Built(ID3v2_read_tag(file), k) : k \in 0..MaxWriteOps })

\* extra_padding_length (lines 111-115)
Write_extra_padding_length(t) ==
    clamp_int(ID3v2_TAG_DEFAULT_PADDING_LENGTH - t.padding_size, 0,
              ID3v2_TAG_DEFAULT_PADDING_LENGTH)

\* a handle returned by tmpfile or fopen
Write_opens(wr, handle) ==
    [wr EXCEPT !.opened = @ \cup {handle}, !.open_handles = @ \cup {handle}]

\* mutant: the first opening of dest is not closed before the second
Write_reopen_closes_nothing(handles) == handles

\* line 137: fclose(dest_fp) closes the first opening of dest
Write_reopen_closes(handles) == handles \ {"dest_r"}

\* a step of ID3v2_Tag_write: the frame becomes nw and the file nd; when the
\* step is the first to pass a NULL handle to stdio, the process may instead
\* crash there, leaving the file as crashDest
WriteStep(nw, nd, usesNull, crashDest) ==
    IF usesNull /\ ~w.null_use
    THEN \/ /\ w' = [nw EXCEPT !.null_use = TRUE]
            /\ dest' = nd
            /\ proc' = proc
         \/ /\ w' = [w EXCEPT !.pc = "crashed", !.null_use = TRUE]
            /\ dest' = crashDest
            /\ proc' = "crashed"
    ELSE /\ w' = nw
         /\ dest' = nd
         /\ proc' = proc

CanCallWrite ==
    /\ proc = "running"
    /\ w.pc \in {"idle", "returned"}
    /\ nWrites < MaxWrites

\* the locals at the entry of a call
WriteEntry ==
    [WriteIdle EXCEPT
        !.dest0 = dest,
        !.clean = w.clean /\ w.fault = "none",
        !.payload0 = IF nWrites = 0 THEN Drop(dest, Write_original_size(dest))
                     ELSE w.payload0]

\* mutant: no test of the tag; line 112 reads tag->padding_size of a NULL tag
W_call_null_no_guard ==
    /\ CanCallWrite
    /\ tag' = NULL
    /\ w' = [WriteEntry EXCEPT !.pc = "crashed",
                !.original_size = Write_original_size(dest)]
    /\ proc' = "crashed"
    /\ nWrites' = nWrites + 1
    /\ UNCHANGED <<origin, hist, log, out, reparsed, dest>>

\* line 104: a NULL tag returns at once
W_call_null ==
    /\ CanCallWrite
    /\ tag' = NULL
    /\ w' = [WriteEntry EXCEPT !.pc = "returned"]
    /\ nWrites' = nWrites + 1
    /\ UNCHANGED <<origin, hist, log, out, reparsed, proc, dest>>

\* lines 104-116: probe the existing header, serialize the tag
W_call ==
    /\ CanCallWrite
    /\ \E t \in WriteTags(dest), fails \in BOOLEAN :
          /\ tag' = t
          /\ IF fails
             THEN /\ t.frames # <<>>
                  /\ proc' = "exited"
                  /\ w' = [WriteEntry EXCEPT !.pc = "exited",
                              !.original_size = Write_original_size(dest),
                              !.extra_padding_length = Write_extra_padding_length(t)]
             ELSE LET cs == Tag_to_char_stream(t)
                  IN  \/ /\ proc' = proc
                         /\ w' = [WriteEntry EXCEPT !.pc = "tmpfile",
                                     !.original_size = Write_original_size(dest),
                                     !.extra_padding_length =
                                         Write_extra_padding_length(t),
                                     !.tag_cs = cs]
                      \/ /\ cs.cursor > cs.size
                         /\ proc' = "crashed"
                         /\ w' = [WriteEntry EXCEPT !.pc = "crashed",
                                     !.original_size = Write_original_size(dest),
                                     !.extra_padding_length =
                                         Write_extra_padding_length(t)]
    /\ nWrites' = nWrites + 1
    /\ UNCHANGED <<origin, hist, log, out, reparsed, dest>>

\* line 119: temp_fp = tmpfile()
W_tmpfile ==
    /\ proc = "running"
    /\ w.pc = "tmpfile"
    /\ \/ w' = Write_opens([w EXCEPT !.pc = "fwrite", !.temp_fp = "open"], "temp")
       \/ w' = [w EXCEPT !.pc = "fwrite", !.temp_fp = "null", !.fault = "tmpfile"]
    /\ UNCHANGED <<tag, origin, hist, log, out, reparsed, proc, dest, nWrites>>

\* line 122: fwrite of the serialized tag to the scratch file
W_fwrite ==
    /\ proc = "running"
    /\ w.pc = "fwrite"
    /\ IF w.temp_fp = "null"
       THEN WriteStep([w EXCEPT !.pc = "fopen_r"], dest, TRUE, dest)
       ELSE \/ WriteStep([w EXCEPT !.pc = "fopen_r", !.temp = w.tag_cs.stream],
                         dest, FALSE, dest)
            \/ /\ w.fault = "none"
               /\ w.tag_cs.size > 0
               /\ WriteStep([w EXCEPT !.pc = "fopen_r", !.fault = "fwrite",
                                !.temp = Slice(w.tag_cs.stream, 0, w.tag_cs.size \div 2)],
                            dest, FALSE, dest)
    /\ UNCHANGED <<tag, origin, hist, log, out, reparsed, nWrites>>

\* lines 126-127: dest_fp = fopen(dest, "r+b"); fseek(dest_fp, original_size)
W_fopen_r ==
    /\ proc = "running"
    /\ w.pc = "fopen_r"
    /\ \/ WriteStep(Write_opens([w EXCEPT !.pc = "copy_in", !.dest_fp = "open"],
                                "dest_r"),
                    dest, FALSE, dest)
       \/ /\ w.fault = "none"
          /\ WriteStep([w EXCEPT !.pc = "copy_in", !.dest_fp = "null",
                           !.fault = "fopen_r"],
                       dest, TRUE, dest)
    /\ UNCHANGED <<tag, origin, hist, log, out, reparsed, nWrites>>

\* lines 129-134: copy the bytes of dest from original_size on to the scratch file
W_copy_in ==
    /\ proc = "running"
    /\ w.pc = "copy_in"
    /\ LET payload == IF w.dest_fp = "open" THEN Drop(dest, w.original_size) ELSE <<>>
       IN  IF w.temp_fp = "null"
           THEN WriteStep([w EXCEPT !.pc = "reopen"], dest, FALSE, dest)
           ELSE \/ WriteStep([w EXCEPT !.pc = "reopen", !.temp = w.temp \o payload],
                             dest, FALSE, dest)
                \/ /\ w.fault = "none"
                   /\ payload # <<>>
                   /\ WriteStep([w EXCEPT !.pc = "reopen", !.fault = "putc",
                                    !.temp = w.temp
                                        \o Slice(payload, 0, Len(payload) \div 2)],
                                dest, FALSE, dest)
    /\ UNCHANGED <<tag, origin, hist, log, out, reparsed, nWrites>>

\* lines 137-139: fclose(dest_fp); dest_fp = fopen(dest, "w+b"), which
\* truncates the file; fseek(temp_fp, 0)
W_reopen ==
    /\ proc = "running"
    /\ w.pc = "reopen"
    /\ \/ WriteStep(Write_opens([w EXCEPT !.pc = "copy_out", !.dest_fp = "open",
                                    !.open_handles = Write_reopen_closes(@)],
                                "dest_w"),
                    <<>>, FALSE, <<>>)
       \/ /\ w.fault = "none"
          /\ WriteStep([w EXCEPT !.pc = "copy_out", !.dest_fp = "null",
                           !.fault = "fopen_w",
                           !.open_handles = Write_reopen_closes(@)],
                       dest, FALSE, dest)
    /\ UNCHANGED <<tag, origin, hist, log, out, reparsed, nWrites>>

\* lines 141-144: copy the scratch file back into dest
W_copy_out ==
    /\ proc = "running"
    /\ w.pc = "copy_out"
    /\ LET image == IF w.temp_fp = "open" THEN w.temp ELSE <<>>
       IN  IF w.dest_fp = "open"
           THEN WriteStep([w EXCEPT !.pc = "close"], dest \o image, FALSE, dest)
           ELSE WriteStep([w EXCEPT !.pc = "close"], dest, image # <<>>, dest)
    /\ UNCHANGED <<tag, origin, hist, log, out, reparsed, nWrites>>

\* lines 146-149: fclose(temp_fp); fclose(dest_fp); CharStream_free(tag_cs)
W_close ==
    /\ proc = "running"
    /\ w.pc = "close"
    /\ WriteStep([w EXCEPT !.pc = "returned",
                     !.temp_fp = IF w.temp_fp = "open" THEN "closed" ELSE w.temp_fp,
                     !.dest_fp = IF w.dest_fp = "open" THEN "closed" ELSE w.dest_fp,
                     !.open_handles = @ \ {"temp", "dest_w"}],
                 dest, w.temp_fp = "null" \/ w.dest_fp = "null", dest)
    /\ UNCHANGED <<tag, origin, hist, log, out, reparsed, nWrites>>

InitWrite ==
    /\ tag = ID3v2_Tag_new_empty
    /\ origin = "empty"
    /\ hist = <<ID3v2_Tag_new_empty>>
    /\ log = <<>>
    /\ out = NONE
    /\ reparsed = NONE
    /\ proc = "running"
    /\ dest \in DestFiles
    /\ w = WriteIdle
    /\ nWrites = 0

NextWrite ==
    \/ W_call_null
    \/ W_call
    \/ W_tmpfile
    \/ W_fwrite
    \/ W_fopen_r
    \/ W_copy_in
    \/ W_reopen
    \/ W_copy_out
    \/ W_close

SpecWrite == InitWrite /\ [][NextWrite]_vars

(***************************************************************************)
(* Properties of the tag API.                                               *)
(***************************************************************************)
\* the tag before the last mutation call, and the last mutation call
PrevTag == hist[Len(hist) - 1]

LastCall == log[Len(log)]

\* the id a call looks up: the input's id for a text frame, COMM, APIC
TargetId(call) ==
    CASE call.op = "set_text_frame" -> call.input.id
      [] call.op \in {"set_comment_frame", "add_comment_frame"} -> ID3v2_COMMENT_FRAME_ID
      [] OTHER -> ID3v2_ALBUM_COVER_FRAME_ID

CountId(frames, id) == Cardinality({i \in 1..Len(frames) : frames[i].header.id = id})

\* the full serialized size of a frame: its 10-byte header plus its body
FrameFullSize(frame) == ID3v2_FRAME_HEADER_LENGTH + frame.header.size

FramesFullSize(frames) == SumSeq([i \in 1..Len(frames) |-> FrameFullSize(frames[i])])

\* the frame holds what the call's input gave
HoldsInput(frame, call) ==
    CASE call.op = "set_text_frame" ->
            frame.kind = "text" /\ frame.text = call.input.text
      [] call.op \in {"set_comment_frame", "add_comment_frame"} ->
            /\ frame.kind = "comment"
            /\ frame.short_description = call.input.short_description
            /\ frame.comment = call.input.comment
      [] OTHER ->
            /\ frame.kind = "apic"
            /\ frame.picture_type = call.input.picture_type
            /\ frame.data = call.input.data

\* C1: for a tag that starts empty, after any sequence of mutation calls
\* header.tag_size equals the sum over all frames of the frame's full
\* serialized size (10-byte frame header plus body length header.size).
C1_TagSizeIsSumOfFullFrameSizes ==
    (origin = "empty" /\ tag # NULL) =>
        tag.header.tag_size = FramesFullSize(tag.frames)

\* C3: for a tag built through the mutation API from an empty tag, Tag_parse of
\* the output of Tag_to_char_stream yields an equivalent tag: the same header
\* fields and the same frames in the same order.
C3_ParseOfSerializedIsEquivalent ==
    (origin = "empty" /\ reparsed # NONE) =>
        /\ reparsed # NULL
        /\ reparsed.header = out.src.header
        /\ reparsed.frames = out.src.frames

\* the last two calls were both set_text_frame with the same id X and two
\* different texts, and the tag had no frame with id X before the first
SetTextTwice ==
    /\ Len(log) >= 2
    /\ log[Len(log) - 1].op = "set_text_frame"
    /\ LastCall.op = "set_text_frame"
    /\ log[Len(log) - 1].input.id = LastCall.input.id
    /\ log[Len(log) - 1].input.text # LastCall.input.text
    /\ CountId(hist[Len(hist) - 2].frames, LastCall.input.id) = 0

\* C5: set_text_frame twice with id X and two different texts, from a tag with
\* no frame of id X: exactly one frame with id X, holding the second text, and
\* tag_size moved between the two calls by (second frame size - first frame size).
C5_SetTextFrameTwice ==
    SetTextTwice =>
        LET X == LastCall.input.id
            first == FrameList_get_frame_by_id(PrevTag.frames, X)
            second == FrameList_get_frame_by_id(tag.frames, X)
        IN  /\ CountId(tag.frames, X) = 1
            /\ second.text = LastCall.input.text
            /\ tag.header.tag_size - PrevTag.header.tag_size
                  = FrameFullSize(second) - FrameFullSize(first)

C5_Witness ==
    /\ SetTextTwice
    /\ origin = "empty"
    /\ Len(tag.frames) >= 2

\* the last call was an add (comment or picture)
LastWasAdd ==
    /\ log # <<>>
    /\ LastCall.op \in {"add_comment_frame", "add_apic_frame"}

\* the last two calls were both add_comment_frame, with different descriptions
AddedTwoComments ==
    /\ Len(log) >= 2
    /\ log[Len(log) - 1].op = "add_comment_frame"
    /\ LastCall.op = "add_comment_frame"
    /\ log[Len(log) - 1].input.short_description # LastCall.input.short_description

\* C6: add_comment_frame and add_apic_frame always append: the frame count grows
\* by one whatever frames exist, the frames that were there keep their content and
\* place, and after adding two comment frames with different descriptions
\* get_comment_frames returns both, in insertion order.
C6_AddAlwaysAppends ==
    /\ LastWasAdd =>
          /\ Len(tag.frames) = Len(PrevTag.frames) + 1
          /\ SubSeq(tag.frames, 1, Len(PrevTag.frames)) = PrevTag.frames
          /\ HoldsInput(tag.frames[Len(tag.frames)], LastCall)
    /\ AddedTwoComments =>
          LET all == ID3v2_Tag_get_comment_frames(tag)
              n == Len(all)
          IN  /\ n >= 2
              /\ n = CountId(hist[Len(hist) - 2].frames, ID3v2_COMMENT_FRAME_ID) + 2
              /\ HoldsInput(all[n - 1], log[Len(log) - 1])
              /\ HoldsInput(all[n], LastCall)

C6_Witness ==
    /\ AddedTwoComments
    /\ CountId(hist[Len(hist) - 2].frames, ID3v2_COMMENT_FRAME_ID) >= 1

\* the last call was a set that found a frame with its target id
LastWasSetOnExisting ==
    /\ log # <<>>
    /\ LastCall.op \in {"set_text_frame", "set_comment_frame", "set_apic_frame"}
    /\ CountId(PrevTag.frames, TargetId(LastCall)) >= 1

\* C7: a set that finds a frame with the target id puts the new frame in the
\* list position of the first such frame, leaves the frame count unchanged and
\* leaves every other frame (later frames with the same id too) as it was.
C7_SetReplacesFirstInPlace ==
    LastWasSetOnExisting =>
        LET i == FrameList_index_by_id(PrevTag.frames, TargetId(LastCall))
        IN  /\ Len(tag.frames) = Len(PrevTag.frames)
            /\ tag.frames[i].header.id = TargetId(LastCall)
            /\ HoldsInput(tag.frames[i], LastCall)
            /\ \A j \in 1..Len(PrevTag.frames) :
                  j # i => tag.frames[j] = PrevTag.frames[j]

C7_Witness ==
    /\ LastWasSetOnExisting
    /\ CountId(PrevTag.frames, TargetId(LastCall)) >= 2
    /\ ~HoldsInput(PrevTag.frames[FrameList_index_by_id(PrevTag.frames,
                                                        TargetId(LastCall))],
                   LastCall)

\* the frame is an attached picture whose type is not front cover
IsOtherPicture(frame) ==
    /\ frame.header.id = ID3v2_ALBUM_COVER_FRAME_ID
    /\ frame.kind = "apic"
    /\ frame.picture_type # ID3v2_PIC_TYPE_FRONT_COVER

\* C12: ID3v2_Tag_set_album_cover only sets the front cover: every attached
\* picture frame of another picture type is, after the call, the frame it was
\* before, and a frame with picture type front cover holds the given data.
C12_SetAlbumCoverOnlySetsFrontCover ==
    (log # <<>> /\ LastCall.op = "set_album_cover") =>
        /\ \A i \in 1..Len(PrevTag.frames) :
              IsOtherPicture(PrevTag.frames[i]) =>
                  (i <= Len(tag.frames) /\ tag.frames[i] = PrevTag.frames[i])
        /\ \E i \in 1..Len(tag.frames) :
              /\ tag.frames[i].header.id = ID3v2_ALBUM_COVER_FRAME_ID
              /\ tag.frames[i].picture_type = ID3v2_PIC_TYPE_FRONT_COVER
              /\ tag.frames[i].data = LastCall.input.data

\* tag_size minus the sum of header.size over the frames of the list
SizeSlack(t) ==
    t.header.tag_size - SumSeq([i \in 1..Len(t.frames) |-> t.frames[i].header.size])

\* C19: for a tag that is empty or parsed, every mutation call (set and add,
\* for text, comment and picture frames) leaves tag_size minus the sum of
\* header.size over all frames unchanged; hence tag_size is never negative
\* when it started at or above that sum.
C19_MutationsKeepSizeSlack ==
    tag # NULL =>
        /\ \A i \in 1..Len(hist) : SizeSlack(hist[i]) = SizeSlack(hist[1])
        /\ SizeSlack(hist[1]) >= 0 => tag.header.tag_size >= 0

\* a parsed tag with padding, after a call that made tag_size smaller and an add
C19_Witness ==
    /\ tag # NULL
    /\ origin = "parsed"
    /\ Len(log) >= 2
    /\ SizeSlack(hist[1]) > 0
    /\ \E i \in 1..Len(log) : hist[i + 1].header.tag_size < hist[i].header.tag_size
    /\ \E i \in 1..Len(log) : log[i].op \in {"add_apic_frame", "add_comment_frame"}

\* C8: when Frame_to_char_stream yields no stream inside Tag_to_char_stream, the
\* failure is returned to the caller and the process keeps running.
C8_SerializeFailureKeepsRunning ==
    (out # NONE /\ out.failed) => proc = "running"

\* the layout the tag's serialization has: header, then the frames in list order
TagLayout(t) ==
    TagHeader_bytes(t.header)
        \o Flatten([i \in 1..Len(t.frames) |-> Frame_to_char_stream(t.frames[i])])

\* C10: Tag_to_char_stream writes the 10-byte header followed by the frames in
\* list order and nothing else, and the number of bytes written equals the
\* allocated capacity header length + tag_size: no write goes past the capacity.
C10_SerializedLayoutFillsCapacity ==
    (out # NONE /\ ~out.failed) =>
        /\ out.cs.size = ID3v2_TAG_HEADER_LENGTH + out.src.header.tag_size
        /\ out.cs.cursor = out.cs.size
        /\ out.cs.stream = TagLayout(out.src)

(***************************************************************************)
(* Properties of Tag_parse.                                                 *)
(***************************************************************************)
IsWhole(kind) == kind \in {"text", "comment"}

\* the frames of the whole chunks that come before the first damaged chunk
RECURSIVE FramesBeforeDamage(_)
FramesBeforeDamage(chunks) ==
    IF chunks = <<>> \/ ~IsWhole(Head(chunks)) THEN <<>>
    ELSE <<ChunkFrame(Head(chunks))>> \o FramesBeforeDamage(Tail(chunks))

Parsed == reparsed # NONE

\* C15: when Frame_parse fails on the k-th frame of a region, Tag_parse returns a
\* tag whose frames are exactly the k-1 frames before it, in stream order, and
\* nothing after it is parsed as a frame; when the magic does not match,
\* Tag_parse returns no tag.  (Stated on regions without an extended header.)
C15_ParseStopsAtFirstBadFrame ==
    /\ (Parsed /\ out.src.magic /\ out.src.ext = 0) =>
          /\ reparsed # NULL
          /\ reparsed.frames = FramesBeforeDamage(out.src.chunks)
    /\ (Parsed /\ ~out.src.magic) => reparsed = NULL

\* a region of a whole frame, a damaged frame and a whole frame was parsed
C15_Witness ==
    /\ Parsed
    /\ out.src.magic /\ out.src.ext = 0
    /\ Len(out.src.chunks) = 3
    /\ IsWhole(out.src.chunks[1])
    /\ out.src.chunks[2] = "corrupt"
    /\ IsWhole(out.src.chunks[3])
    /\ Len(reparsed.frames) = 1

\* C16: when the header reports an extended header of E > 0 bytes, frame parsing
\* begins at offset 10 + E of the region: the frames that follow the extended
\* header are the frames of the tag.
C16_ExtendedHeaderIsSkipped ==
    (Parsed /\ out.src.magic /\ out.src.ext > 0) =>
        /\ reparsed # NULL
        /\ reparsed.header.extended_header_size = out.src.ext
        /\ Tag_parse_start(reparsed.header) = ID3v2_TAG_HEADER_LENGTH + out.src.ext
        /\ reparsed.frames = FramesBeforeDamage(out.src.chunks)

OldExtent(file) ==
    IF Len(file) >= ID3v2_TAG_HEADER_LENGTH /\ Slice(file, 0, 3) = ID3v2_TAG_IDENTIFIER
    THEN ((((file[7] % 128) * 128 + (file[8] % 128)) * 128 + (file[9] % 128)) * 128
            + (file[10] % 128)) + ID3v2_TAG_HEADER_LENGTH
    ELSE 0

\* the call returned and every I/O call it made succeeded
WriteCompleted ==
    /\ w.pc = "returned"
    /\ tag # NULL
    /\ w.fault = "none"

\* C2: when ID3v2_Tag_write completes for a non-null tag, the destination is the
\* serialized tag bytes (the stream Tag_to_char_stream returned) followed by
\* exactly the bytes the destination held from the old extent onward, in order.
C2_RewriteKeepsPayload ==
    WriteCompleted =>
        dest = w.tag_cs.stream \o Drop(w.dest0, OldExtent(w.dest0))

\* a completed rewrite of a file with a tag and audio bytes after it, by a
\* tag smaller than the old one, made after an earlier rewrite
C2_Witness ==
    /\ WriteCompleted
    /\ nWrites = 2
    /\ OldExtent(w.dest0) > 0
    /\ Len(w.dest0) = OldExtent(w.dest0) + MaxPayload
    /\ w.tag_cs.size < OldExtent(w.dest0)
    /\ Drop(dest, w.tag_cs.size) = AudioPayload

\* the image the scratch file must hold before the commit step
NewImage == w.tag_cs.stream \o Drop(w.dest0, w.original_size)

\* C4: during ID3v2_Tag_write the destination keeps its initial contents in every
\* state before the commit step; no byte of it is written (and it is not
\* truncated) until the scratch file holds the complete new image; a failure at
\* any staging step leaves the destination untouched.  (Stated for the runs in
\* which no NULL handle has reached a stdio call; those runs are C9's.)
C4_DestUntouchedUntilStaged ==
    ~w.null_use =>
        /\ w.pc \in {"tmpfile", "fwrite", "fopen_r", "copy_in", "reopen"}
              => dest = w.dest0
        /\ (w.pc \in {"copy_out", "close", "returned"} /\ tag # NULL /\ dest # w.dest0)
              => w.temp = NewImage
        /\ w.fault \in {"tmpfile", "fwrite", "fopen_r", "putc"} => dest = w.dest0

\* the number of bytes the rewritten file holds between the new tag and the
\* bytes kept from the old file
FillerLength == Len(dest) - w.tag_cs.size - Len(Drop(w.dest0, OldExtent(w.dest0)))

\* C11: a completed ID3v2_Tag_write has placed after the new tag as many filler
\* bytes as the extra padding it computed, clamp(budget - tag.padding_size, 0,
\* budget), a number from 0 to the budget.
C11_ExtraPaddingIsAppended ==
    WriteCompleted =>
        /\ FillerLength = w.extra_padding_length
        /\ w.extra_padding_length
              = clamp_int(ID3v2_TAG_DEFAULT_PADDING_LENGTH - tag.padding_size, 0,
                          ID3v2_TAG_DEFAULT_PADDING_LENGTH)
        /\ w.extra_padding_length \in 0..ID3v2_TAG_DEFAULT_PADDING_LENGTH

\* C13: on every exit path of ID3v2_Tag_write, success or failure, every file
\* handle it opened (the scratch file and both openings of the destination)
\* has been closed: no handle is open when the call has ended.
C13_HandlesClosedOnEveryExit ==
    w.pc \in {"returned", "exited"} => w.open_handles = {}

\* a call that opened all three handles and had an I/O call fail has returned
C13_Witness ==
    /\ w.pc = "returned"
    /\ w.opened = {"temp", "dest_r", "dest_w"}
    /\ w.fault # "none"
    /\ w.open_handles = {}

\* C14: ID3v2_Tag_write called with a null tag is a no-op: the call returns, it
\* has opened no file, the destination holds what it held, and no error is
\* signalled (the process runs on, no I/O call was made or failed).
C14_NullTagWriteIsNoOp ==
    (nWrites > 0 /\ tag = NULL) =>
        /\ w.pc = "returned"
        /\ proc = "running"
        /\ w.opened = {}
        /\ w.temp_fp = "none" /\ w.dest_fp = "none"
        /\ w.fault = "none"
        /\ dest = w.dest0

\* a null-tag call made on a file that an earlier call rewrote
C14_Witness ==
    /\ nWrites = 2
    /\ tag = NULL
    /\ w.pc = "returned"
    /\ OldExtent(dest) > 0
    /\ dest \notin DestFiles

\* the call returned, and no I/O call of this or an earlier call failed
CleanReturn ==
    /\ w.pc = "returned"
    /\ w.clean
    /\ w.fault = "none"

\* C18: the extent declared by the header ID3v2_Tag_write puts on disk (tag_size
\* + 10) is the file offset at which the kept audio payload begins, so after
\* any sequence of ID3v2_Tag_write calls on a destination, with tags built
\* through the mutation API, the original audio payload is the exact suffix of
\* the file that follows the declared extent.
C18_RepeatedWritesKeepPayload ==
    CleanReturn =>
        /\ tag # NULL => OldExtent(dest) = w.tag_cs.size
        /\ Drop(dest, OldExtent(dest)) = w.payload0

\* a second rewrite, by a tag with frames, of a file the first rewrite changed
C18_Witness ==
    /\ CleanReturn
    /\ nWrites = 2
    /\ tag # NULL
    /\ tag.frames # <<>>
    /\ w.dest0 \notin DestFiles
    /\ Len(dest) # Len(w.dest0)
    /\ w.payload0 = AudioPayload

\* C9: if creating the scratch file or opening the destination fails, the
\* operation stops with an error reported to the caller, does not go on to use
\* the missing handle, and leaves the destination unmodified.
C9_OpenFailureStopsTheWrite ==
    w.fault \in {"tmpfile", "fopen_r"} =>
        /\ ~w.null_use
        /\ proc = "running"
        /\ dest = w.dest0

====
